---- MODULE Spec2Model ----
(***************************************************************************)
(* Model of plugins/modules/server.py: the GleSYS server module.           *)
(*                                                                         *)
(* One invocation of the module is GlesysRunner.run: look the server up,   *)
(* then delete, create or edit it, wait for the provider, and exit.  The   *)
(* model takes one step per provider call (an HTTP request), per sleep and *)
(* per piece of local control flow in between, so that the order and the   *)
(* number of calls are visible.  The provider (the GleSYS API) is the      *)
(* environment: every call may be answered with an HTTP status >= 400, and *)
(* a locked server may have come unlocked whenever its status is read.     *)
(*                                                                         *)
(* Python values: None is the empty tuple and a set optional value v is    *)
(* <<v>>; a string that is measured or built character by character (the   *)
(* root password) is a tuple of one-character strings.                     *)
(***************************************************************************)
EXTENDS Integers, Sequences, FiniteSets, TLC

VARIABLES
    params,        \* module.params, as AnsibleModule leaves them (main)
    check_mode,    \* module.check_mode
    servers,       \* the provider's servers, in the order server/list gives
    server,        \* run's local `server`: None or <<properties>>
    changed,       \* run's local `changed`: None while unbound, else <<bool>>
    pc,            \* position of the run
    site,          \* which call of wait_for_server_lock / _state is active
    target_state,  \* wait_for_server_state's target_state
    lookup,        \* what get_server returned: "pending", "found", "notfound"
    calls,         \* provider calls issued by the current run, in order
    sleeps,        \* time.sleep(1) calls of the current run
    generated,     \* invocations of generate_temp_password in the current run
    result,        \* how the current run ended: None while running
    first,         \* result of the previous run (None during the first)
    run_no,        \* number of the current run
    iplist_in,     \* address derivation on its own: the address list
    ipaddress_out  \* address derivation on its own: None, or <<ipaddress>>

vars == <<params, check_mode, servers, server, changed, pc, site, target_state,
          lookup, calls, sleeps, generated, result, first, run_no,
          iplist_in, ipaddress_out>>

run_vars == <<params, check_mode, servers, server, changed, pc, site,
              target_state, lookup, calls, sleeps, generated, result, first,
              run_no>>

addr_vars == <<iplist_in, ipaddress_out>>

-----------------------------------------------------------------------------
(* Bounds of the model *)

\* sleeps a run may take before the model stops following it
MaxSleeps == 2
\* urandom outcomes the model draws from are numbered 0..MaxSeed
MaxSeed == 1
\* runs in sequence with the same parameters
MaxRuns == 2
\* longest address list of the stand-alone address derivation
MaxAddrs == 3

-----------------------------------------------------------------------------
(* Python values *)

None == <<>>

Some(v) == <<v>>

\* dict.update: entries of `new` replace or extend those of `props`
dict_update(props, new) ==
    [k \in (DOMAIN props) \cup (DOMAIN new) |->
        IF k \in DOMAIN new THEN new[k] ELSE props[k]]

IntFields == {"cpucores", "disksize", "memorysize", "bandwidth"}

\* Truthy taking every value that is set for true
Truthy_when_set(k, v) == v # None

\* truth value of an optional parameter: None, 0 and "" are false
Truthy(k, v) ==
    /\ v # None
    /\ IF k \in IntFields THEN v[1] # 0 ELSE v[1] # ""

-----------------------------------------------------------------------------
(* The provider: the servers of the project and what the API answers *)

ServerA ==
    [serverid |-> "s1", hostname |-> "h1", cpucores |-> 1,
     memorysize |-> 2048, disksize |-> 20, bandwidth |-> 100,
     supportedfeatures |-> [editbandwidth |-> "yes"], state |-> "running",
     iplist |-> << [version |-> 6, ipaddress |-> "2001:db8::a"],
                   [version |-> 4, ipaddress |-> "192.0.2.1"] >>]

ServerB ==
    [serverid |-> "s2", hostname |-> "h2", cpucores |-> 2,
     memorysize |-> 4096, disksize |-> 40, bandwidth |-> 100,
     supportedfeatures |-> [editbandwidth |-> "no"], state |-> "running",
     iplist |-> << [version |-> 6, ipaddress |-> "2001:db8::b"],
                   [version |-> 6, ipaddress |-> "2001:db8::c"] >>]

\* the lifecycle states the servers of a listing start in
InitialStates == {"running", "stopped", "locked"}

\* the listings a run may start from: no server, one, or both in either order
ProviderListings ==
    { <<>> } \cup
    { <<[ServerA EXCEPT !.state = st]>> : st \in InitialStates } \cup
    { <<[ServerA EXCEPT !.state = st], [ServerB EXCEPT !.state = st]>> :
        st \in InitialStates } \cup
    { <<[ServerB EXCEPT !.state = st], [ServerA EXCEPT !.state = st]>> :
        st \in InitialStates }

\* a lock ends on the provider's side, at a time the run does not control
Evolve(st) == IF st = "locked" THEN {"locked", "running", "stopped"} ELSE {st}

\* position of the server with this id in the provider's list (0: none)
IndexOf(list, serverid) ==
    IF \E i \in 1..Len(list) : list[i].serverid = serverid
    THEN CHOOSE i \in 1..Len(list) : list[i].serverid = serverid
    ELSE 0

\* server/list answers with the identifying fields of every server
ListEntry(s) == [serverid |-> s.serverid, hostname |-> s.hostname]

\* the id the provider gives to a server it creates
NewServerId == "s3"

\* the server the provider builds from the parameters of server/create;
\* sizes the request leaves null take the documented defaults
NewServer(p, st) ==
    [serverid |-> NewServerId,
     hostname |-> p.hostname[1],
     cpucores |-> IF p.cpucores = None THEN 1 ELSE p.cpucores[1],
     memorysize |-> IF p.memorysize = None THEN 2048 ELSE p.memorysize[1],
     disksize |-> IF p.disksize = None THEN 20 ELSE p.disksize[1],
     bandwidth |-> p.bandwidth[1],
     supportedfeatures |-> [editbandwidth |-> "yes"],
     state |-> st,
     iplist |-> << [version |-> 4, ipaddress |-> "192.0.2.3"] >>]

\* the server after server/edit applied the submitted fields
ApplyEdit(s, p, st) ==
    [k \in DOMAIN s |->
        IF k = "state" THEN st
        ELSE IF k \in DOMAIN p /\ k # "serverid" THEN p[k]
        ELSE s[k]]

-----------------------------------------------------------------------------
(* The parameters of an invocation *)

\* serverid and hostname: required_one_of (main) rejects an invocation with neither
Identities ==
    { [serverid |-> i, hostname |-> h] :
        i \in {None, Some("s2")}, h \in {None, Some("h1")} }
    \ { [serverid |-> None, hostname |-> None] }

\* a caller may also name the server by an empty hostname
EmptyIdentity == [serverid |-> None, hostname |-> Some("")]

States == {"present", "running", "stopped", "rebooted", "absent"}

\* the empty password (the default) and one the caller chose
Passwords == { <<>>, <<"p", "w">> }

\* the default of wait_timeout
DefaultWaitTimeout == 600

DesiredConfigurations ==
    { [serverid |-> id.serverid, hostname |-> id.hostname,
       cpus |-> c, memory |-> m, disk |-> d, bandwidth |-> b,
       password |-> pw, state |-> st, wait |-> w,
       wait_timeout |-> DefaultWaitTimeout] :
        id \in Identities \cup {EmptyIdentity},
        c \in {None, Some(1), Some(2)}, m \in {None, Some(2048)},
        d \in {None, Some(20)}, b \in {Some(100), Some(200)},
        pw \in Passwords, st \in States, w \in BOOLEAN }

-----------------------------------------------------------------------------
(* generate_temp_password (lines 474-480) *)

\* the shortest temporary password generate_temp_password accepts
MinTempPassword == 8

\* the length GlesysApi.create_server asks for
TempPasswordLength == 64

\* number of values of a byte
ByteRange == 256

chars ==
    << "A", "B", "C", "D", "E", "F", "G", "H", "J", "K", "L", "M", "N", "P",
       "Q", "R", "S", "T", "U", "V", "W", "X", "Y", "Z",
       "2", "3", "4", "5", "6", "7", "8", "9" >>

\* os.urandom(length): `length` bytes; the model draws them from the byte
\* strings numbered 0..MaxSeed
urandom(length) ==
    { [i \in 1..length |-> (seed * 89 + i * 7 + (i \div 37) * 3) % ByteRange] :
        seed \in 0..MaxSeed }

\* whether generate_temp_password raises ValueError for this length
temp_password_rejected(length) == length < MinTempPassword

\* "".join(chars[c % len(chars)] for c in bytes); tuples count from 1
generate_temp_password(bytes) ==
    [i \in 1..Len(bytes) |-> chars[(bytes[i] % Len(chars)) + 1]]

-----------------------------------------------------------------------------
(* Address derivation of run (lines 426-432) *)

\* the loop of lines 427-432 over the rest of the list, `acc` being
\* server.properties["ipaddress"] so far
RECURSIVE ipaddress_loop(_, _)
ipaddress_loop(iplist, acc) ==
    IF iplist = <<>> THEN acc
    ELSE LET i == Head(iplist) IN
         IF i.version = 4 THEN i.ipaddress
         ELSE IF i.version = 6 THEN ipaddress_loop(Tail(iplist), i.ipaddress)
         ELSE ipaddress_loop(Tail(iplist), acc)

\* lines 426-432: start from "" and run the loop
derive_ipaddress(iplist) == ipaddress_loop(iplist, "")

-----------------------------------------------------------------------------
(* GlesysApi: the pure parts *)

\* find_in looking for the hostname before the id
find_in_hostname_first(list, serverid, hostname) ==
    LET byId == { i \in 1..Len(list) : Some(list[i].serverid) = serverid }
        byHostname == { i \in 1..Len(list) : Some(list[i].hostname) = hostname }
        First(S) == CHOOSE i \in S : \A j \in S : i <= j
    IN  IF byHostname # {} THEN Some(list[First(byHostname)])
        ELSE IF byId # {} THEN Some(list[First(byId)])
        ELSE None

\* GlesysApi.find, lines 192-200, on the answer of server/list
find_in(list, serverid, hostname) ==
    LET byId == { i \in 1..Len(list) : Some(list[i].serverid) = serverid }
        byHostname == { i \in 1..Len(list) : Some(list[i].hostname) = hostname }
        First(S) == CHOOSE i \in S : \A j \in S : i <= j
    IN  IF byId # {} THEN Some(list[First(byId)])
        ELSE IF byHostname # {} THEN Some(list[First(byHostname)])
        ELSE None

\* the dict GlesysRunner.update_server hands to GlesysApi.update_server
\* (lines 458-464)
edit_request(p) ==
    [cpucores |-> p.cpus, disksize |-> p.disk, memorysize |-> p.memory,
     bandwidth |-> p.bandwidth, hostname |-> p.hostname]

\* edit_keys without the comparison of line 280
edit_keys_not_compared(props, request) ==
    { k \in DOMAIN request : Truthy(k, request[k]) }

\* GlesysApi.update_server, lines 279-280: the keys that stay in params
edit_keys(props, request) ==
    { k \in DOMAIN request :
        /\ Truthy(k, request[k])
        /\ request[k] # Some(props[k]) }

\* nothing_to_edit never holding: the edit is issued with whatever is left
nothing_to_edit_never(clean_keys) == FALSE

\* GlesysApi.update_server, line 282: len(params) == 0
nothing_to_edit(clean_keys) == clean_keys = {}

\* GlesysApi.update_server, line 285: the body of server/edit
edit_params(props, request) ==
    [k \in edit_keys(props, request) \cup {"serverid"} |->
        IF k = "serverid" THEN props.serverid ELSE request[k][1]]

\* the condition of GlesysRunner.update_server, lines 448-456
needs_update(serverdetails, p) ==
    \/ Some(serverdetails.cpucores) # p.cpus
    \/ Some(serverdetails.disksize) # p.disk
    \/ Some(serverdetails.memorysize) # p.memory
    \/ Some(serverdetails.hostname) # p.hostname
    \/ /\ serverdetails.supportedfeatures.editbandwidth = "yes"
       /\ Some(serverdetails.bandwidth) # p.bandwidth

\* the dict GlesysApi.create_server posts (lines 233-246), without the
\* placement and metadata fields, which the run passes through unread
create_params(p, password) ==
    [hostname |-> p.hostname, disksize |-> p.disk, memorysize |-> p.memory,
     cpucores |-> p.cpus, bandwidth |-> p.bandwidth, rootpassword |-> password]

\* the target wait_for_server_state is given at the end of run (436-438)
final_target(state) == IF state = "rebooted" THEN "running" ELSE state

-----------------------------------------------------------------------------
(* How a step records a call and how a run ends *)

\* the HTTP statuses the provider answers with: success, and the lowest
\* status parse_response takes for an error
HttpStatuses == {200, 400}

\* the statuses a request may be answered with; one the provider cannot
\* serve (an unknown server, a create without hostname) only with an error
Answers(can_succeed) == IF can_succeed THEN HttpStatuses ELSE {400}

\* provider_error taking only a status above 400 for an error
provider_error_above(status_code) == status_code > 400

\* parse_response, line 292: the statuses that are errors
provider_error(status_code) == status_code >= 400

\* one request to the provider: fetch_url in GlesysApi.query / GlesysApi.post;
\* the log keeps the status of the response and, for server/status, the
\* state it reported
Call(op, arg, status_code, answer) ==
    calls' = Append(calls, [op |-> op, arg |-> arg, status |-> status_code,
                            answer |-> answer])

\* parse_response, lines 291-295: a status >= 400 ends the run as failed
fail_json ==
    /\ pc' = "failed"
    /\ result' = Some([kind |-> "fail_json", args |-> [msg |-> "provider error"]])

\* module.exit_json(**args): the run ends and reports args
exit_json(args) ==
    /\ pc' = "done"
    /\ result' = Some([kind |-> "exit_json", args |-> args])

\* an exception nothing catches: the run ends in an internal error
raise(exception) ==
    /\ pc' = "crashed"
    /\ result' = Some([kind |-> "exception", args |-> [msg |-> exception]])

\* already_absent reporting a change
already_absent_changed == [changed |-> TRUE, msg |-> "Server already absent"]

\* line 400: what run reports when the server to remove is not there
already_absent == [changed |-> FALSE, msg |-> "Server already absent"]

\* line 404: what run reports after server/destroy
deleted(serverid) == [changed |-> TRUE, msg |-> <<"Server ", serverid, " deleted">>]

\* line 352: what create_server reports in check mode
check_mode_exit == [changed |-> TRUE, server |-> None]

\* line 443: what run reports at its end
final_exit(c, props) == [changed |-> c, server |-> Some(props)]

\* create_short_circuits without the test of check_mode
create_never_short_circuits == FALSE

\* line 351: whether create_server stops before the request
create_short_circuits == check_mode

\* root_passwords without the replacement of an empty password
root_passwords_as_given(password) == { password }

\* lines 229-230 and 242: the root passwords create_server may submit
root_passwords(password) ==
    IF Len(password) < 1
    THEN { generate_temp_password(b) : b \in urandom(TempPasswordLength) }
    ELSE { password }

\* lines 229-230: whether create_server invokes generate_temp_password
generates(password) == Len(password) < 1

-----------------------------------------------------------------------------
(* The run, step by step *)

Init ==
    /\ params \in DesiredConfigurations
    /\ check_mode \in BOOLEAN
    /\ servers \in ProviderListings
    /\ server = None
    /\ changed = None
    /\ pc = "get_server"
    /\ site = ""
    /\ target_state = ""
    /\ lookup = "pending"
    /\ calls = <<>>
    /\ sleeps = 0
    /\ generated = 0
    /\ result = None
    /\ first = None
    /\ run_no = 1
    /\ iplist_in = <<>>
    /\ ipaddress_out = None

\* run, line 393: get_server calls find (lines 186-200): server/list, unless
\* neither serverid nor hostname is given
find ==
    /\ pc = "get_server"
    /\ IF ~Truthy("serverid", params.serverid) /\ ~Truthy("hostname", params.hostname)
       THEN /\ server' = None
            /\ lookup' = "notfound"
            /\ pc' = "run"
            /\ UNCHANGED <<calls, result>>
       ELSE \E status_code \in Answers(TRUE) :
            /\ Call("list", None, status_code, None)
            /\ IF ~provider_error(status_code)
               THEN LET s == find_in([i \in 1..Len(servers) |-> ListEntry(servers[i])],
                                     params.serverid, params.hostname)
                    IN  /\ server' = s
                        /\ lookup' = IF s = None THEN "notfound" ELSE "found"
                        /\ pc' = IF s = None THEN "run" ELSE "get_server_update"
                        /\ UNCHANGED result
               ELSE fail_json /\ UNCHANGED <<server, lookup>>
    /\ UNCHANGED <<params, check_mode, servers, changed, site, target_state,
                   sleeps, generated, first, run_no, addr_vars>>

\* AnsibleGlesysServer.update (lines 161-163): server/details, merged into
\* the properties
details(next) ==
    LET i == IndexOf(servers, server[1].serverid) IN
    \E status_code \in Answers(i # 0) :
        /\ Call("details", server[1].serverid, status_code, None)
        /\ IF ~provider_error(status_code) /\ i # 0
           THEN /\ server' = Some(dict_update(server[1], servers[i]))
                /\ pc' = next
                /\ UNCHANGED result
           ELSE fail_json /\ UNCHANGED server

\* get_server, lines 205-206: s.update() on the server found
get_server_update ==
    /\ pc = "get_server_update"
    /\ details("run")
    /\ UNCHANGED <<params, check_mode, servers, changed, site, target_state,
                   lookup, sleeps, generated, first, run_no, addr_vars>>

\* run_decision testing for a server to update before it tests for absent
run_decision_update_first(state, found) ==
    IF found /\ state \in {"present", "absent"} THEN "update_server"
    ELSE IF state = "absent" THEN "done"
    ELSE IF state = "present" THEN "create_server"
    ELSE "wait"

\* run, lines 397-418: where run goes with the state asked for and the
\* server found or not: "done" is the exit of line 400,
\* "wait_for_server_lock" line 402, "create_server" line 412,
\* "update_server" line 418, "wait" line 435
run_decision(state, found) ==
    IF state = "absent"
    THEN IF found THEN "wait_for_server_lock" ELSE "done"
    ELSE IF state = "present"
    THEN IF found THEN "update_server" ELSE "create_server"
    ELSE "wait"

\* run, lines 395-418: what to do with the server found, or not found
run_branch ==
    /\ pc = "run"
    /\ LET next == run_decision(params.state, server # None) IN
       /\ IF next = "done"
          THEN exit_json(already_absent)
          ELSE pc' = next /\ UNCHANGED result
       /\ site' = IF next = "wait_for_server_lock" THEN "absent" ELSE site
       /\ changed' = IF next \in {"create_server", "update_server"}
                     THEN Some(FALSE) ELSE changed
    /\ UNCHANGED <<params, check_mode, servers, server, target_state, lookup,
                   calls, sleeps, generated, first, run_no, addr_vars>>

\* GlesysRunner.create_server (lines 350-371) with GlesysApi.create_server
\* (lines 227-249): server/create, unless in check mode.  The provider
\* answers a request without a hostname with an error, and starts the new
\* server locked or running
create_server ==
    /\ pc = "create_server"
    /\ IF create_short_circuits
       THEN /\ exit_json(check_mode_exit)
            /\ UNCHANGED <<servers, server, site, target_state, calls, generated>>
       ELSE IF generates(params.password) /\ temp_password_rejected(TempPasswordLength)
       THEN /\ raise("ValueError")
            /\ UNCHANGED <<servers, server, site, target_state, calls, generated>>
       ELSE \E password \in root_passwords(params.password),
               status_code \in Answers(Truthy("hostname", params.hostname)),
               st \in {"locked", "running"} :
            LET body == create_params(params, password) IN
            /\ generated' = IF generates(params.password)
                            THEN generated + 1 ELSE generated
            /\ Call("create", body, status_code, None)
            /\ IF ~provider_error(status_code) /\ Truthy("hostname", params.hostname)
               THEN /\ servers' = Append(servers, NewServer(body, st))
                    /\ server' = Some(NewServer(body, st))
                    /\ pc' = "wait_for_server_state"
                    /\ site' = "created"
                    /\ target_state' = "running"
                    /\ UNCHANGED result
               ELSE fail_json /\ UNCHANGED <<servers, server, site, target_state>>
    /\ UNCHANGED <<params, check_mode, changed, lookup, sleeps, first, run_no,
                   addr_vars>>

\* where wait_for_server_state returns to
after_state(s) == IF s = "created" THEN "created_settle" ELSE "server_update"

\* state_reached without the test for present
state_reached_no_present(target, active_state) == target = active_state

\* wait_for_server_state, lines 378-382: the tests that break the loop
state_reached(target, active_state) ==
    target = "present" \/ target = active_state

\* wait_for_server_state, lines 375-382: one server/status and the tests on it
wait_for_server_state ==
    /\ pc = "wait_for_server_state"
    /\ LET i == IndexOf(servers, server[1].serverid) IN
       \E status_code \in Answers(i # 0) :
        IF ~provider_error(status_code) /\ i # 0
        THEN \E active_state \in Evolve(servers[i].state) :
             /\ Call("status", server[1].serverid, status_code, Some(active_state))
             /\ servers' = [servers EXCEPT ![i].state = active_state]
             /\ pc' = IF state_reached(target_state, active_state)
                      THEN after_state(site) ELSE "state_sleep"
             /\ UNCHANGED result
        ELSE /\ Call("status", server[1].serverid, status_code, None)
             /\ fail_json
             /\ UNCHANGED servers
    /\ UNCHANGED <<params, check_mode, server, changed, site, target_state,
                   lookup, sleeps, generated, first, run_no, addr_vars>>

\* wait_for_server_state, line 384: time.sleep(1), then poll again
state_sleep ==
    /\ pc = "state_sleep"
    /\ sleeps < MaxSleeps
    /\ sleeps' = sleeps + 1
    /\ pc' = "wait_for_server_state"
    /\ UNCHANGED <<params, check_mode, servers, server, changed, site,
                   target_state, lookup, calls, generated, result, first,
                   run_no, addr_vars>>

\* run, lines 414-415: time.sleep(1); changed = True; then line 420
created_settle ==
    /\ pc = "created_settle"
    /\ sleeps' = sleeps + 1
    /\ changed' = Some(TRUE)
    /\ pc' = "wait_for_server_lock"
    /\ site' = "present"
    /\ UNCHANGED <<params, check_mode, servers, server, target_state, lookup,
                   calls, generated, result, first, run_no, addr_vars>>

\* GlesysRunner.update_server, lines 447-456: server/details and the
\* comparison with the parameters; if nothing differs, return to line 420
update_server ==
    /\ pc = "update_server"
    /\ LET i == IndexOf(servers, server[1].serverid) IN
       \E status_code \in Answers(i # 0) :
        /\ Call("details", server[1].serverid, status_code, None)
        /\ IF ~provider_error(status_code) /\ i # 0
           THEN /\ IF needs_update(servers[i], params)
                   THEN pc' = "api_update_server" /\ UNCHANGED site
                   ELSE pc' = "wait_for_server_lock" /\ site' = "present"
                /\ UNCHANGED result
           ELSE fail_json /\ UNCHANGED site
    /\ UNCHANGED <<params, check_mode, servers, server, changed, target_state,
                   lookup, sleeps, generated, first, run_no, addr_vars>>

\* GlesysApi.update_server (lines 278-288), called at line 458, and line
\* 466: server/edit with the fields that are left, or no call if none is
api_update_server ==
    /\ pc = "api_update_server"
    /\ LET request == edit_request(params)
           body == edit_params(server[1], request)
           i == IndexOf(servers, server[1].serverid)
       IN  IF nothing_to_edit(edit_keys(server[1], request))
           THEN /\ changed' = Some(FALSE)
                /\ pc' = "update_server_refresh"
                /\ UNCHANGED <<servers, server, calls, result>>
           ELSE \E status_code \in Answers(i # 0) :
                /\ Call("edit", body, status_code, None)
                /\ IF ~provider_error(status_code) /\ i # 0
                   THEN \E st \in {servers[i].state, "locked"} :
                        LET edited == ApplyEdit(servers[i], body, st) IN
                        /\ servers' = [servers EXCEPT ![i] = edited]
                        /\ server' = Some(edited)
                        /\ changed' = Some(TRUE)
                        /\ pc' = "update_server_refresh"
                        /\ UNCHANGED result
                   ELSE fail_json /\ UNCHANGED <<servers, server, changed>>
    /\ UNCHANGED <<params, check_mode, site, target_state, lookup, sleeps,
                   generated, first, run_no, addr_vars>>

\* GlesysRunner.update_server, lines 467-470: server.update(), then the lock
\* wait if the caller asked to wait
update_server_refresh ==
    /\ pc = "update_server_refresh"
    /\ details(IF params.wait THEN "wait_for_server_lock" ELSE "update_server_return")
    /\ site' = IF params.wait THEN "update_server" ELSE site
    /\ UNCHANGED <<params, check_mode, servers, changed, target_state, lookup,
                   sleeps, generated, first, run_no, addr_vars>>

\* GlesysRunner.update_server, lines 471-472: changed = True; return; then
\* line 420
update_server_return ==
    /\ pc = "update_server_return"
    /\ changed' = Some(TRUE)
    /\ pc' = "wait_for_server_lock"
    /\ site' = "present"
    /\ UNCHANGED <<params, check_mode, servers, server, target_state, lookup,
                   calls, sleeps, generated, result, first, run_no, addr_vars>>

\* where wait_for_server_lock returns to: line 403, line 471 or line 426
after_lock(s) ==
    IF s = "absent" THEN "remove_server"
    ELSE IF s = "update_server" THEN "update_server_return"
    ELSE "ipaddress"

\* still_locked taking every state but running for a lock
still_locked_unless_running(active_state) == active_state # "running"

\* wait_for_server_lock, line 388: the test of the loop
still_locked(active_state) == active_state = "locked"

\* wait_for_server_lock, lines 387-390: one server/status and the test on it
wait_for_server_lock ==
    /\ pc = "wait_for_server_lock"
    /\ LET i == IndexOf(servers, server[1].serverid) IN
       \E status_code \in Answers(i # 0) :
        IF ~provider_error(status_code) /\ i # 0
        THEN \E active_state \in Evolve(servers[i].state) :
             /\ Call("status", server[1].serverid, status_code, Some(active_state))
             /\ servers' = [servers EXCEPT ![i].state = active_state]
             /\ pc' = IF still_locked(active_state)
                      THEN "lock_sleep" ELSE after_lock(site)
             /\ UNCHANGED result
        ELSE /\ Call("status", server[1].serverid, status_code, None)
             /\ fail_json
             /\ UNCHANGED servers
    /\ UNCHANGED <<params, check_mode, server, changed, site, target_state,
                   lookup, sleeps, generated, first, run_no, addr_vars>>

\* lock_sleep giving up once wait_timeout seconds have been slept
lock_sleep_with_deadline ==
    /\ pc = "lock_sleep"
    /\ sleeps < MaxSleeps
    /\ IF sleeps >= params.wait_timeout
       THEN fail_json /\ UNCHANGED sleeps
       ELSE /\ sleeps' = sleeps + 1
            /\ pc' = "wait_for_server_lock"
            /\ UNCHANGED result
    /\ UNCHANGED <<params, check_mode, servers, server, changed, site,
                   target_state, lookup, calls, generated, first, run_no,
                   addr_vars>>

\* wait_for_server_lock, line 389: time.sleep(1), then poll again
lock_sleep ==
    /\ pc = "lock_sleep"
    /\ sleeps < MaxSleeps
    /\ sleeps' = sleeps + 1
    /\ pc' = "wait_for_server_lock"
    /\ UNCHANGED <<params, check_mode, servers, server, changed, site,
                   target_state, lookup, calls, generated, result, first,
                   run_no, addr_vars>>

\* run, lines 403-404, with GlesysApi.remove_server (lines 251-258):
\* server/destroy, then exit
remove_server ==
    /\ pc = "remove_server"
    /\ LET i == IndexOf(servers, server[1].serverid) IN
       \E status_code \in Answers(i # 0) :
        /\ Call("destroy", server[1].serverid, status_code, None)
        /\ IF ~provider_error(status_code) /\ i # 0
           THEN /\ servers' = [j \in 1..(Len(servers) - 1) |->
                                 IF j < i THEN servers[j] ELSE servers[j + 1]]
                /\ exit_json(deleted(server[1].serverid))
           ELSE fail_json /\ UNCHANGED servers
    /\ UNCHANGED <<params, check_mode, server, changed, site, target_state,
                   lookup, sleeps, generated, first, run_no, addr_vars>>

\* run, lines 426-432: the ipaddress property
ipaddress ==
    /\ pc = "ipaddress"
    /\ server' = Some(dict_update(server[1],
                    [ipaddress |-> derive_ipaddress(server[1].iplist)]))
    /\ pc' = "wait"
    /\ UNCHANGED <<params, check_mode, servers, changed, site, target_state,
                   lookup, calls, sleeps, generated, result, first, run_no,
                   addr_vars>>

\* run, lines 435-439: the wait for the state the caller asked for; with no
\* server, server.serverid() raises
wait ==
    /\ pc = "wait"
    /\ IF params.wait
       THEN IF server = None
            THEN raise("AttributeError") /\ UNCHANGED <<site, target_state>>
            ELSE /\ pc' = "wait_for_server_state"
                 /\ site' = "final"
                 /\ target_state' = final_target(params.state)
                 /\ UNCHANGED result
       ELSE /\ pc' = "server_update"
            /\ UNCHANGED <<site, target_state, result>>
    /\ UNCHANGED <<params, check_mode, servers, server, changed, lookup, calls,
                   sleeps, generated, first, run_no, addr_vars>>

\* run, line 441: server.update(); with no server it raises
server_update ==
    /\ pc = "server_update"
    /\ IF server = None
       THEN raise("AttributeError") /\ UNCHANGED <<server, calls>>
       ELSE details("exit")
    /\ UNCHANGED <<params, check_mode, servers, changed, site, target_state,
                   lookup, sleeps, generated, first, run_no, addr_vars>>

\* run, line 443: exit_json(changed=changed, ...); reading `changed` raises
\* if no line has assigned it
exit ==
    /\ pc = "exit"
    /\ IF changed = None
       THEN raise("UnboundLocalError")
       ELSE exit_json(final_exit(changed[1], server[1]))
    /\ UNCHANGED <<params, check_mode, servers, server, changed, site,
                   target_state, lookup, calls, sleeps, generated, first,
                   run_no, addr_vars>>

\* the module is invoked again with the same parameters, against the provider as
\* the run before left it
rerun ==
    /\ pc = "done"
    /\ run_no < MaxRuns
    /\ run_no' = run_no + 1
    /\ first' = result
    /\ server' = None
    /\ changed' = None
    /\ pc' = "get_server"
    /\ site' = ""
    /\ target_state' = ""
    /\ lookup' = "pending"
    /\ calls' = <<>>
    /\ sleeps' = 0
    /\ generated' = 0
    /\ result' = None
    /\ UNCHANGED <<params, check_mode, servers, addr_vars>>

Next ==
    \/ find
    \/ get_server_update
    \/ run_branch
    \/ create_server
    \/ wait_for_server_state
    \/ state_sleep
    \/ created_settle
    \/ update_server
    \/ api_update_server
    \/ update_server_refresh
    \/ update_server_return
    \/ wait_for_server_lock
    \/ lock_sleep
    \/ remove_server
    \/ ipaddress
    \/ wait
    \/ server_update
    \/ exit
    \/ rerun

Spec == Init /\ [][Next]_vars

-----------------------------------------------------------------------------
(* The address derivation on its own, over every short address list *)

Addresses ==
    { [version |-> 4, ipaddress |-> "192.0.2.1"],
      [version |-> 4, ipaddress |-> "192.0.2.2"],
      [version |-> 6, ipaddress |-> "2001:db8::a"],
      [version |-> 6, ipaddress |-> "2001:db8::b"] }

AddressLists ==
    UNION { [1..n -> Addresses] : n \in 0..MaxAddrs }

AddrInit ==
    /\ iplist_in \in AddressLists
    /\ ipaddress_out = None
    /\ params = CHOOSE p \in DesiredConfigurations : TRUE
    /\ check_mode = FALSE
    /\ servers = <<>>
    /\ server = None
    /\ changed = None
    /\ pc = "ipaddress"
    /\ site = ""
    /\ target_state = ""
    /\ lookup = "pending"
    /\ calls = <<>>
    /\ sleeps = 0
    /\ generated = 0
    /\ result = None
    /\ first = None
    /\ run_no = 1

\* lines 426-432 applied to iplist_in
ipaddress_of_list ==
    /\ ipaddress_out = None
    /\ ipaddress_out' = Some(derive_ipaddress(iplist_in))
    /\ UNCHANGED <<iplist_in, run_vars>>

AddrNext == ipaddress_of_list

AddrSpec == AddrInit /\ [][AddrNext]_vars

-----------------------------------------------------------------------------
(* Vocabulary of the properties *)

\* positions in the call log of the calls with this operation
CallsOf(op) == { i \in 1..Len(calls) : calls[i].op = op }

MutatingOps == {"create", "edit", "destroy"}

MutatingCalls == { i \in 1..Len(calls) : calls[i].op \in MutatingOps }

\* the run has ended and reported through exit_json
Reported == pc = "done"

\* the desired value of the field an edit names
DesiredOf(k) ==
    CASE k = "cpucores" -> params.cpus
      [] k = "disksize" -> params.disk
      [] k = "memorysize" -> params.memory
      [] k = "bandwidth" -> params.bandwidth
      [] k = "hostname" -> params.hostname
      [] OTHER -> None

EditFields == {"cpucores", "disksize", "memorysize", "bandwidth", "hostname"}

\* this step issues server/edit
IssuesEdit ==
    /\ Len(calls') = Len(calls) + 1
    /\ calls'[Len(calls')].op = "edit"

\* the fields the edit of this step carries besides the server id
SubmittedFields == DOMAIN calls'[Len(calls')].arg \ {"serverid"}

-----------------------------------------------------------------------------
(* C1: idempotence *)

\* C1: for every desired configuration with state present, when the module is
\* run twice in sequence with the same parameters against a provider that
\* changes only through the runs' own calls, the second run reports
\* changed=false.
C1_SecondRunUnchanged ==
    (run_no >= 2 /\ Reported /\ params.state = "present" /\ ~check_mode)
        => result[1].args.changed = FALSE

-----------------------------------------------------------------------------
(* C2: what an edit carries *)

\* C2: every edit call carries, besides the server id, only fields among
\* cpucores, disksize, memorysize, bandwidth and hostname whose desired value
\* is set and differs from the value the snapshot holds; a field left unset
\* is never submitted.
C2_EditCarriesOnlyDifferences ==
    [][ IssuesEdit =>
          \A k \in SubmittedFields :
              /\ k \in EditFields
              /\ DesiredOf(k) # None
              /\ calls'[Len(calls')].arg[k] = DesiredOf(k)[1]
              /\ DesiredOf(k)[1] # server[1][k] ]_vars

\* C2 witness: an edit was issued that carries one field and leaves out a
\* field whose desired value is set and equal to the snapshot's, in a run
\* that also left a field unset
C2_Witness ==
    \E i \in CallsOf("edit") :
        /\ DOMAIN calls[i].arg = {"serverid", "hostname"}
        /\ params.cpus = Some(2)
        /\ params.memory = None

-----------------------------------------------------------------------------
(* C3: bandwidth gating *)

\* C3: when the snapshot reports that bandwidth editing is unsupported, no
\* edit call carries a bandwidth field, and a run in which bandwidth is the
\* only field whose desired value is set and differs issues no edit call.
C3_NoBandwidthEditWhenUnsupported ==
    [][ (IssuesEdit /\ server[1].supportedfeatures.editbandwidth # "yes") =>
          /\ "bandwidth" \notin SubmittedFields
          /\ \E k \in EditFields \ {"bandwidth"} :
                DesiredOf(k) # None /\ DesiredOf(k)[1] # server[1][k] ]_vars

-----------------------------------------------------------------------------
(* C4: delete precedence *)

\* C4: when the desired state is absent and the lookup finds the server, the
\* run issues no create and no edit call, whatever sizing fields differ, it
\* does not end in an internal error, and when it reports, it has issued one
\* destroy call and reports changed=true.
C4_AbsentFoundDestroys ==
    (params.state = "absent" /\ lookup = "found") =>
        /\ CallsOf("create") = {}
        /\ CallsOf("edit") = {}
        /\ pc # "crashed"
        /\ Reported =>
            /\ Cardinality(CallsOf("destroy")) = 1
            /\ result[1].args.changed = TRUE

\* C4 witness: a run that found a server whose cpucores differ from the
\* desired cpus has destroyed it and reported
C4_Witness ==
    /\ params.state = "absent"
    /\ lookup = "found"
    /\ Reported
    /\ params.cpus = Some(1)
    /\ server[1].cpucores = 2
    /\ CallsOf("destroy") # {}

-----------------------------------------------------------------------------
(* C5: absent on absent *)

\* C5: when the desired state is absent and the lookup finds no server, the
\* run issues no mutating call, does not fail, and reports changed=false.
C5_AbsentNotFoundIsNoop ==
    (params.state = "absent" /\ lookup = "notfound") =>
        /\ MutatingCalls = {}
        /\ pc \in {"run", "done"}
        /\ Reported => result[1].args.changed = FALSE

\* C5 witness: such a run has reported, after a lookup that listed servers
\* none of which matched
C5_Witness ==
    /\ params.state = "absent"
    /\ lookup = "notfound"
    /\ Reported
    /\ Len(servers) > 0
    /\ CallsOf("list") # {}

-----------------------------------------------------------------------------
(* C6: the root password of a create *)

\* uppercase letters and digits without I, O, 0 and 1
PasswordAlphabet ==
    { "A", "B", "C", "D", "E", "F", "G", "H", "J", "K", "L", "M", "N", "P",
      "Q", "R", "S", "T", "U", "V", "W", "X", "Y", "Z",
      "2", "3", "4", "5", "6", "7", "8", "9" }

\* C6: every create call submits a non-empty root password: if the caller's
\* password is empty, a generated one of length at least 8 whose characters
\* all belong to the alphabet; if it is non-empty, that password unchanged,
\* and the generator is not invoked.
C6_CreatePassword ==
    /\ params.password # <<>> => generated = 0
    /\ \A i \in CallsOf("create") :
        LET rootpassword == calls[i].arg.rootpassword IN
        /\ Len(rootpassword) >= 1
        /\ IF params.password = <<>>
           THEN /\ Len(rootpassword) >= 8
                /\ \A j \in 1..Len(rootpassword) :
                      rootpassword[j] \in PasswordAlphabet
                /\ generated = 1
           ELSE rootpassword = params.password

\* C6 witness: a create call was issued for a caller who gave no password
C6_Witness ==
    /\ params.password = <<>>
    /\ CallsOf("create") # {}
    /\ generated = 1

-----------------------------------------------------------------------------
(* C7: the ipaddress property *)

\* the first address of the list with this version, "" if there is none
FirstOfVersion(list, v) ==
    LET S == { i \in 1..Len(list) : list[i].version = v } IN
    IF S = {} THEN ""
    ELSE list[CHOOSE i \in S : \A j \in S : i <= j].ipaddress

\* C7: for every address list, the derived ipaddress is the first IPv4
\* address of the list if it holds any, otherwise its first IPv6 address.
C7_FirstV4ElseFirstV6 ==
    ipaddress_out # None =>
        ipaddress_out[1] =
            IF FirstOfVersion(iplist_in, 4) # ""
            THEN FirstOfVersion(iplist_in, 4)
            ELSE FirstOfVersion(iplist_in, 6)

-----------------------------------------------------------------------------
(* C8: create when the server is not found *)

\* C8: for every desired state among present, running, stopped and rebooted,
\* when the lookup finds no server and check mode is off, a run that ends
\* without a provider failure has issued exactly one create call and polled
\* the status until it was running.
C8_CreatesWhenNotFound ==
    (/\ params.state \in {"present", "running", "stopped", "rebooted"}
     /\ lookup = "notfound"
     /\ CallsOf("list") # {}
     /\ ~check_mode
     /\ pc \in {"done", "crashed"}) =>
        /\ Cardinality(CallsOf("create")) = 1
        /\ \E i \in CallsOf("status") : \A j \in CallsOf("create") : j < i

-----------------------------------------------------------------------------
(* C9: the result of a run on an existing server *)

\* C9: for every desired state among present, running, stopped and rebooted
\* and an existing server, a run that ends without a provider failure
\* reports a boolean changed flag and the final snapshot; it does not end in
\* an internal error.
C9_ReportsChangedAndSnapshot ==
    (/\ params.state \in {"present", "running", "stopped", "rebooted"}
     /\ lookup = "found"
     /\ pc \in {"done", "crashed"}) =>
        /\ pc = "done"
        /\ result[1].args.changed \in BOOLEAN
        /\ result[1].args.server # None

-----------------------------------------------------------------------------
(* C10: check mode *)

\* C10: in check mode, when the desired state is present and the lookup
\* finds no server, the run issues no mutating call, does not end in an
\* error, and reports changed=true with no snapshot.
C10_CheckModeCreatesNothing ==
    (check_mode /\ params.state = "present" /\ lookup = "notfound") =>
        /\ MutatingCalls = {}
        /\ pc \notin {"crashed", "failed"}
        /\ Reported => result[1].args = [changed |-> TRUE, server |-> None]

\* C10 witness: such a run has reported
C10_Witness ==
    /\ check_mode
    /\ params.state = "present"
    /\ lookup = "notfound"
    /\ Reported
    /\ CallsOf("list") # {}


-----------------------------------------------------------------------------
(* C11: provider errors *)

\* C11: if any provider call of a run is answered with an HTTP status of 400
\* or more, the run ends at once as failed with the provider's error text:
\* that call is the last call the run issues and it is not retried.
C11_ProviderErrorEndsRun ==
    \A i \in 1..Len(calls) :
        calls[i].status >= 400 =>
            /\ i = Len(calls)
            /\ pc = "failed"
            /\ result = Some([kind |-> "fail_json",
                              args |-> [msg |-> "provider error"]])

\* C11 witness: a status poll, after the lookup's calls, was answered with
\* an error and the run has failed
C11_Witness ==
    /\ pc = "failed"
    /\ Len(calls) >= 3
    /\ calls[Len(calls)].op = "status"
    /\ calls[Len(calls)].status >= 400


-----------------------------------------------------------------------------
(* The two waits on their own: wait_for_server_lock as run calls it at     *)
(* lines 402, 420 and 470, and wait_for_server_state as run calls it at    *)
(* lines 413 and 439, each from its call on, with the calls of the wait    *)
(* alone in the log                                                        *)

\* the values of wait_timeout the waits are tried with
WaitTimeouts == {0, 1, DefaultWaitTimeout}

\* the parameters of the runs the waits are taken from
WaitConfigurations ==
    { [p EXCEPT !.wait_timeout = t] :
        p \in { q \in DesiredConfigurations :
                  /\ q.serverid = None
                  /\ q.hostname = Some("h1")
                  /\ q.cpus = None /\ q.memory = None /\ q.disk = None
                  /\ q.bandwidth = Some(100)
                  /\ q.password = <<>> },
        t \in WaitTimeouts }

\* the places a wait starts from, with the state asked for there:
\* position, call site and target_state
WaitEntries(state) ==
    IF state = "absent"
    THEN { <<"wait_for_server_lock", "absent", "">> }
    ELSE IF state = "present"
    THEN { <<"wait_for_server_lock", "update_server", "">>,
           <<"wait_for_server_lock", "present", "">>,
           <<"wait_for_server_state", "created", "running">>,
           <<"wait", "", "">> }
    ELSE { <<"wait", "", "">> }

WaitInit ==
    /\ params \in WaitConfigurations
    /\ check_mode = FALSE
    /\ \E st \in InitialStates : servers = <<[ServerA EXCEPT !.state = st]>>
    /\ server = Some(ServerA)
    /\ changed = IF params.state = "present" THEN Some(FALSE) ELSE None
    /\ \E e \in WaitEntries(params.state) :
        /\ pc = e[1]
        /\ site = e[2]
        /\ target_state = e[3]
    /\ lookup = "found"
    /\ calls = <<>>
    /\ sleeps = 0
    /\ generated = 0
    /\ result = None
    /\ first = None
    /\ run_no = 1
    /\ iplist_in = <<>>
    /\ ipaddress_out = None

WaitNext ==
    \/ wait
    \/ wait_for_server_state
    \/ state_sleep
    \/ wait_for_server_lock
    \/ lock_sleep

WaitSpec == WaitInit /\ [][WaitNext]_vars


-----------------------------------------------------------------------------
(* Vocabulary of the waits                                                  *)

\* the states the provider answered the status polls with, in order
StatusAnswers ==
    [i \in 1..Len(calls) |-> calls[i].answer]

\* a wait for the lock is going on or has returned
InLockWait == site \in {"absent", "update_server", "present"}

\* the positions a wait for the lock returns to
LockWaitReturned == pc \in {"remove_server", "update_server_return", "ipaddress"}

\* C12: when the provider answers n times locked and then once with another
\* state, the wait for the lock returns after exactly n + 1 status polls and
\* n sleeps of one second: it goes on while every answer is locked, and it
\* returns on the first answer that is not
C12_LockWaitPollsUntilUnlocked ==
    InLockWait =>
        LET n == Cardinality({i \in 1..Len(calls) :
                                StatusAnswers[i] = Some("locked")}) IN
        /\ \A i \in 1..Len(calls) : calls[i].op = "status"
        /\ pc = "wait_for_server_lock" =>
              /\ Len(calls) = n
              /\ sleeps = n
        /\ pc = "lock_sleep" =>
              /\ Len(calls) = n
              /\ sleeps = n - 1
        /\ LockWaitReturned =>
              /\ Len(calls) = n + 1
              /\ \A i \in 1..n : StatusAnswers[i] = Some("locked")
              /\ StatusAnswers[n + 1] # None
              /\ StatusAnswers[n + 1] # Some("locked")
              /\ sleeps = n
        /\ pc \in {"wait_for_server_lock", "lock_sleep", "failed"}
           \/ LockWaitReturned

\* locked, locked, running: the wait has returned after three polls
C12_Witness ==
    /\ InLockWait
    /\ LockWaitReturned
    /\ StatusAnswers = <<Some("locked"), Some("locked"), Some("running")>>
    /\ sleeps = 2


\* a wait for a state is going on or has returned
InStateWait == site \in {"created", "final"}

\* the positions a wait for a state returns to
StateWaitReturned == pc \in {"created_settle", "server_update"}

\* the state the wait at this call site is for: running after a create,
\* else the state asked for, with rebooted awaited as running
AwaitedState ==
    IF site = "created" THEN "running"
    ELSE IF params.state = "rebooted" THEN "running"
    ELSE params.state

\* C16: the wait for a state returns after exactly one poll, whatever the
\* server's state, when the target is present; for any other target it
\* returns exactly after the first poll that answers with the target,
\* sleeping once between two polls; rebooted is awaited as running
C16_StateWaitReturnsOnTarget ==
    InStateWait =>
        /\ \A i \in 1..Len(calls) : calls[i].op = "status"
        /\ target_state = AwaitedState
        /\ pc = "wait_for_server_state" =>
              /\ sleeps = Len(calls)
              /\ AwaitedState = "present" => calls = <<>>
              /\ \A i \in 1..Len(calls) : StatusAnswers[i] # Some(AwaitedState)
        /\ pc = "state_sleep" =>
              /\ sleeps = Len(calls) - 1
              /\ AwaitedState # "present"
              /\ \A i \in 1..Len(calls) : StatusAnswers[i] # Some(AwaitedState)
        /\ StateWaitReturned =>
              /\ calls # <<>>
              /\ sleeps = Len(calls) - 1
              /\ StatusAnswers[Len(calls)] # None
              /\ IF AwaitedState = "present"
                 THEN Len(calls) = 1
                 ELSE /\ StatusAnswers[Len(calls)] = Some(AwaitedState)
                      /\ \A i \in 1..(Len(calls) - 1) :
                            StatusAnswers[i] # Some(AwaitedState)
        /\ pc \in {"wait_for_server_state", "state_sleep", "failed"}
           \/ StateWaitReturned

\* rebooted asked for: the wait has returned on the first answer running,
\* the third one
C16_Witness ==
    /\ InStateWait
    /\ StateWaitReturned
    /\ params.state = "rebooted"
    /\ StatusAnswers = <<Some("locked"), Some("locked"), Some("running")>>
    /\ sleeps = Len(calls) - 1

\* the positions inside the two waits
WaitLabels ==
    {"wait_for_server_lock", "lock_sleep", "wait_for_server_state",
     "state_sleep"}

\* the last status poll was answered with an error
LastPollFailed ==
    /\ calls # <<>>
    /\ calls[Len(calls)].status >= 400

\* one step taken inside a wait: what it may lead to
WaitStep ==
    pc \in WaitLabels =>
          /\ pc = "lock_sleep" =>
                pc' = "wait_for_server_lock" /\ result' = None
          /\ pc = "state_sleep" =>
                pc' = "wait_for_server_state" /\ result' = None
          /\ pc = "wait_for_server_lock" =>
                /\ Len(calls') = Len(calls) + 1
                /\ IF LastPollFailed' THEN pc' = "failed"
                   ELSE IF calls'[Len(calls')].answer = Some("locked")
                   THEN pc' = "lock_sleep"
                   ELSE pc' \notin WaitLabels /\ result' = None
          /\ pc = "wait_for_server_state" =>
                /\ Len(calls') = Len(calls) + 1
                /\ IF LastPollFailed' THEN pc' = "failed"
                   ELSE IF \/ AwaitedState = "present"
                           \/ calls'[Len(calls')].answer = Some(AwaitedState)
                   THEN pc' \notin WaitLabels /\ result' = None
                   ELSE pc' = "state_sleep"

\* C17: neither wait has a deadline, whatever wait_timeout is: after a sleep
\* the wait always polls again, a wait for the lock is left only on an
\* answer that is not locked or on a provider error, a wait for a state only
\* on an answer that ends it or on a provider error, and an answer locked
\* always leads to one more sleep
C17_WaitsHaveNoDeadline == [][WaitStep]_vars

\* a wait for the lock about to poll again with more seconds slept than
\* wait_timeout allows
C17_Witness ==
    /\ pc = "wait_for_server_lock"
    /\ InLockWait
    /\ sleeps > params.wait_timeout
    /\ \A i \in 1..Len(calls) : StatusAnswers[i] = Some("locked")
    /\ result = None


-----------------------------------------------------------------------------
(* C13: the lock before a mutation *)

\* the status poll at position j answered with a state other than locked
UnlockedPoll(j) ==
    /\ calls[j].op = "status"
    /\ calls[j].answer # None
    /\ calls[j].answer # Some("locked")

\* C13: each edit call and each destroy call is issued only after a status
\* poll of that server in the same run, with no other mutating call in
\* between, has answered with a state other than locked
C13_LockWaitedOutBeforeMutation ==
    \A i \in 1..Len(calls) :
        calls[i].op \in {"edit", "destroy"} =>
            \E j \in 1..(i - 1) :
                /\ UnlockedPoll(j)
                /\ calls[j].arg = server[1].serverid
                /\ \A k \in (j + 1)..(i - 1) : calls[k].op \notin MutatingOps

-----------------------------------------------------------------------------
(* C14: the client's update with nothing to submit *)

\* every field of the request is unset or equal to the snapshot's value
NothingToSubmit ==
    \A k \in EditFields :
        \/ DesiredOf(k) = None
        \/ DesiredOf(k) = Some(server[1][k])

\* the step is the client's update given a request with nothing to submit
UpdatesWithNothing ==
    /\ pc = "api_update_server"
    /\ NothingToSubmit

\* C14 as stated: the client's update fails with an error when the field-set
\* it is given is empty (nothing set, or nothing differing from the
\* snapshot), and it issues no edit call in that case
C14_EmptyUpdateFails ==
    [][ UpdatesWithNothing =>
          /\ pc' \in {"failed", "crashed"}
          /\ calls' = calls ]_vars

\* C14 as the code has it: given a field-set with nothing set or nothing
\* differing from the snapshot, the client's update returns without an
\* error, reports that nothing was changed, hands back no new snapshot, and
\* issues no edit call
C14_EmptyUpdateReturnsUnchanged ==
    [][ UpdatesWithNothing =>
          /\ calls' = calls
          /\ changed' = Some(FALSE)
          /\ server' = server
          /\ result' = None
          /\ pc' = "update_server_refresh" ]_vars

\* the client's update has returned from a request with nothing to submit
C14_Witness ==
    /\ pc = "update_server_refresh"
    /\ NothingToSubmit
    /\ changed = Some(FALSE)
    /\ CallsOf("edit") = {}
    /\ result = None


-----------------------------------------------------------------------------
(* C15: the power action before the wait for a state *)

\* GlesysApi.set_power_state, lines 264-269: the call that leads to the
\* target state; run has its only call of set_power_state commented out
\* (lines 422-424), so no action of the model issues one of these
transition(target) ==
    CASE target = "running" -> "start"
      [] target = "stopped" -> "stop"
      [] target = "rebooted" -> "reboot"
      [] OTHER -> "nop"

PowerOps == {"start", "stop", "reboot"}

\* the state the provider holds for the server the run found
ProviderState == servers[IndexOf(servers, server[1].serverid)].state

\* C15: for a desired state of running, stopped or rebooted on an existing
\* server whose power state differs from the target, the run has issued the
\* power action matching the target (start, stop, reboot) when it begins to
\* poll for the target state; when the state equals the target it has issued
\* no power action
C15_PowerActionBeforePolling ==
    (/\ pc = "wait_for_server_state"
     /\ site = "final"
     /\ lookup = "found"
     /\ ProviderState \in {"running", "stopped"}
     /\ params.state \in {"running", "stopped", "rebooted"}) =>
        IF ProviderState # params.state
        THEN \E i \in 1..Len(calls) : calls[i].op = transition(params.state)
        ELSE \A i \in 1..Len(calls) : calls[i].op \notin PowerOps


-----------------------------------------------------------------------------
(* find on its own (lines 186-200): the lookup of run, line 393, over        *)
(* listings in which hostnames repeat and identities with empty strings      *)

\* the longest listing find is tried on
MaxListing == 3

\* the ids the provider has given out, in the order it gave them out
IdPool == <<"s1", "s2", "s3", "s4">>

\* the servers a listing may hold: any id of the pool under either hostname
ListedServers ==
    { [ServerA EXCEPT !.serverid = IdPool[i], !.hostname = h] :
        i \in 1..MaxListing, h \in {"h1", "h2"} }

\* the listings: up to MaxListing servers in any order, each id at most once
FindListings ==
    UNION { { l \in [1..n -> ListedServers] :
                \A i, j \in 1..n : i # j => l[i].serverid # l[j].serverid } :
            n \in 0..MaxListing }

\* serverid and hostname as the caller may pass them: unset, empty or set
FindConfigurations ==
    { [p EXCEPT !.serverid = i, !.hostname = h] :
        p \in { q \in WaitConfigurations :
                  q.state = "present" /\ q.wait
                  /\ q.wait_timeout = DefaultWaitTimeout },
        i \in {None, Some(""), Some("s2")},
        h \in {None, Some(""), Some("h1")} }

FindInit ==
    /\ params \in FindConfigurations
    /\ check_mode = FALSE
    /\ servers \in FindListings
    /\ server = None
    /\ changed = None
    /\ pc = "get_server"
    /\ site = ""
    /\ target_state = ""
    /\ lookup = "pending"
    /\ calls = <<>>
    /\ sleeps = 0
    /\ generated = 0
    /\ result = None
    /\ first = None
    /\ run_no = 1
    /\ iplist_in = <<>>
    /\ ipaddress_out = None

FindNext == find

FindSpec == FindInit /\ [][FindNext]_vars

\* the caller gave this identifying parameter: it is set and not empty
Given(v) == v # None /\ v # Some("")

\* positions of the listed servers with the id, and with the hostname, the
\* caller gave
IdMatches == { i \in 1..Len(servers) : Some(servers[i].serverid) = params.serverid }

HostnameMatches == { i \in 1..Len(servers) : Some(servers[i].hostname) = params.hostname }

\* the least position of a non-empty set of positions
Least(S) == CHOOSE i \in S : \A j \in S : i <= j

\* C18: find issues one list call and returns the first listed server whose
\* id equals the given id if there is one, even when an earlier listed server
\* matches the hostname; otherwise the first listed server whose hostname
\* equals the given hostname; otherwise not-found without an error; when
\* neither id nor hostname is given it returns not-found without any call
C18_FindByIdThenHostname ==
    pc # "get_server" =>
        IF ~Given(params.serverid) /\ ~Given(params.hostname)
        THEN /\ calls = <<>>
             /\ server = None
             /\ lookup = "notfound"
             /\ pc = "run"
        ELSE /\ Len(calls) = 1
             /\ calls[1].op = "list"
             /\ calls[1].status < 400 =>
                  /\ result = None
                  /\ IF IdMatches # {}
                     THEN server = Some(ListEntry(servers[Least(IdMatches)]))
                     ELSE IF HostnameMatches # {}
                     THEN server = Some(ListEntry(servers[Least(HostnameMatches)]))
                     ELSE server = None /\ lookup = "notfound" /\ pc = "run"

\* find returned the server with the given id, listed second, although the
\* server listed first has the given hostname
C18_Witness ==
    /\ pc = "get_server_update"
    /\ Len(calls) = 1
    /\ Len(servers) >= 2
    /\ params.serverid = Some("s2")
    /\ params.hostname = Some("h1")
    /\ servers[1].hostname = "h1"
    /\ servers[1].serverid # "s2"
    /\ server = Some(ListEntry(servers[2]))
    /\ server[1].serverid = "s2"


-----------------------------------------------------------------------------
(* C19: what changed stands for *)

\* C19: a run outside check mode reports changed=true if and only if it
\* issued a mutating call (create, edit or destroy); in particular a run
\* against an existing server that submits no edit reports changed=false
C19_ChangedIffMutated ==
    (Reported /\ ~check_mode) =>
        (result[1].args.changed = TRUE <=> MutatingCalls # {})


-----------------------------------------------------------------------------
(* C20: one mutation, after the lookup *)

\* a list call was issued before the call at position i
ListedBefore(i) == \E j \in CallsOf("list") : j < i

====
